---- MODULE Spec2Model ----
(***************************************************************************)
(* A model of the fprint wrapper crates (fprint-rs and fprint-sys): device *)
(* discovery, the enroll loop, the classification of native return codes   *)
(* and the ownership of native handles.  The native library libfprint is   *)
(* outside the repository: it appears here as the nondeterministic choice  *)
(* of the values it hands back (return codes, handles, array contents).    *)
(***************************************************************************)
EXTENDS Integers, Sequences, FiniteSets, TLC

VARIABLES
    \* ---- discovery (fprint-rs/src/discovered_device.rs, lib.rs) ----
    set,          \* the DiscoveredDevices value [live, inner, current_item_number]
    mem,          \* native memory of the discovered-device array: entries, then NULL
    held,         \* the DiscoveredDev values the caller holds (their handles)
    freed,        \* fp_dscv_devs_free calls made on the array
    lastUse,      \* [op, dev, alive] of the last call on a held DiscoveredDev
    devFreed,     \* handles a DiscoveredDev released by itself
    countResult,  \* <<c>> once count() returned c, <<>> before any call
    getResult,    \* [index, result, read] of the last get(index)
    produced,     \* the devices successive next() calls returned Some(..) for
    nextCalls,    \* number of next() calls made on the current set
    ended,        \* TRUE once a next() call returned None
    crashed,      \* TRUE once an undefined read trapped: the process is gone
    \* ---- enrollment (fprint-rs/src/device.rs) ----
    nrStages,     \* enroll stages of the opened device, 0 while no device is open
    nativeStage,  \* native enrollment state: 0 = none in process, k = stage k is next
    gen,          \* the generator Device::enroll() returned: "none", "suspended", "done"
    data,         \* the generator's PrintData handle (NULL until the native assigns it)
    genReturn,    \* what the generator completed with
    resumes,      \* resume() calls made on the generator
    genCalls,     \* native enroll calls the generator made
    passes,       \* native Pass outcomes the generator received
    yieldedPass,  \* EnrollResult::Pass values the generator yielded
    yieldedOther, \* other values the generator yielded
    lastYield,    \* the value the generator yielded last
    templates,    \* templates the generator returned Ok(..) with
    lastCall,     \* [code, ran, via] of the latest native enroll call on the device
    prevCall,     \* the native enroll call before it
    stageResult,  \* what the last direct enroll_finger_image call returned
    calls,        \* native enroll calls made on the device so far
    \* ---- single calls into the native layer ----
    last,         \* the latest wrapper call: its operation, inputs and result
    \* ---- ownership of native handles ----
    objs,         \* the wrapper values alive: slot -> [kind, handle]
    native,       \* native resources: handle -> [kind, via, clones, released]: the
                  \* wrapper type and operation that acquired it, the clones made of
                  \* its wrapper, the calls of its native release function
    allocated,    \* number of native handles handed out so far
    \* ---- the library session (fprint-rs/src/lib.rs) ----
    sessions,     \* FPrint values alive
    made,         \* FPrint values made so far, by new() or clone()
    inits,        \* fp_init() calls that returned 0
    exits,        \* fp_exit() calls
    initResult,   \* what the last FPrint::new() returned
    initCode      \* the code fp_init() returned to that call

useVars == <<held, freed, lastUse, devFreed>>

discVars == <<set, mem, countResult, getResult, produced, nextCalls, ended, crashed,
              useVars>>

enrollVars == <<nrStages, nativeStage, gen, data, genReturn, resumes, genCalls,
                passes, yieldedPass, yieldedOther, lastYield, templates,
                lastCall, prevCall, stageResult, calls>>

ownVars == <<objs, native, allocated>>

sessVars == <<sessions, made, inits, exits, initResult, initCode>>

vars == <<discVars, enrollVars, last, ownVars, sessVars>>

(***************************************************************************)
(* Bounds of the model.                                                    *)
(***************************************************************************)
MaxDevs == 3
MaxNext == 5
MaxStages == 3
MaxCalls == 4
MaxTemplates == 2
MaxGallery == 3
MaxObjs == 3
MaxHandles == 2
MaxClones == 1
MaxSessions == 3
MaxRaw == 12

(***************************************************************************)
(* Program constants.                                                      *)
(***************************************************************************)
NULL == 0

None == <<"None">>
Some(x) == <<"Some", x>>
Crash == <<"Crash">>
Ok(x) == <<"Ok", x>>
Err(kind, payload) == <<"Err", kind, payload>>
NotCalled == <<"NotCalled">>

\* Raw return codes the native library may hand back: errno values negated,
\* the enroll and verify result codes, and codes outside both enums.
ENOENT == 2
ENOTSUP == 95
Codes == {-ENOTSUP, -ENOENT, -1, 0, 1, 2, 3, 4, 100, 101, 102, 103, 104}

(***************************************************************************)
(* Discovery                                                               *)
(***************************************************************************)

\* The native array fp_discover_devs() returns for n attached devices: the
\* n device handles 1..n followed by the NULL terminator.
NativeArray(n) == [i \in 1..(n + 1) |-> IF i <= n THEN i ELSE NULL]

\* Number of entries before the first NULL of the native array.
Entries == IF mem = <<>> THEN 0 ELSE Len(mem) - 1

\* `unsafe { ptr.offset(i).read() }`: the values the read can produce.  A read
\* inside the array yields the slot; a read through a null pointer or outside
\* the array is undefined: the build may trap or hand back whatever is there.
ReadSlot(ptr, i) ==
    IF ptr # NULL /\ i >= 0 /\ i < Len(mem)
    THEN {<<"val", mem[i + 1]>>}
    ELSE {<<"trap">>, <<"val", NULL>>, <<"val", MaxDevs + 1>>}

DefinedRead(ptr, i) == ptr # NULL /\ i >= 0 /\ i < Len(mem)

\* DiscoveredDevices::with_devices
WithDevices(devices) == [live |-> TRUE, inner |-> devices, current_item_number |-> 0]

\* DiscoveredDevices::count: size_of_val(&self.inner) / size_of::<*mut fp_dscv_dev>(),
\* the size of one pointer divided by the size of one pointer.
PtrSize == 8
CountOf(s) == PtrSize \div PtrSize

\* `index as usize >= n` for an isize index: a negative index wraps to a value
\* of at least 2^63, which is above every count.
UsizeGe(index, n) == index < 0 \/ index >= n

\* FPrint::discover: fp_discover_devs() hands back an array for n devices, or
\* NULL when the scan failed.
\* A behaviour follows one scan: no second scan after the set was dropped.
Discover ==
    /\ ~set.live
    /\ freed = 0
    /\ \/ \E n \in 0..MaxDevs :
            /\ mem' = NativeArray(n)
            /\ set' = WithDevices(1)
       \/ /\ mem' = <<>>
          /\ set' = WithDevices(NULL)
    /\ UNCHANGED <<countResult, getResult, produced, nextCalls, ended, crashed, useVars>>
    /\ UNCHANGED <<enrollVars, last, ownVars, sessVars>>

\* DiscoveredDevices::count
Count ==
    /\ set.live /\ ~crashed
    /\ countResult' = <<CountOf(set)>>
    /\ UNCHANGED <<set, mem, getResult, produced, nextCalls, ended, crashed, useVars>>
    /\ UNCHANGED <<enrollVars, last, ownVars, sessVars>>

\* What get(index) returns, given the value v its read produced.
GetReturn(v) ==
    IF v[1] = "trap" THEN Crash
    ELSE IF v[2] = NULL THEN None
    ELSE Some(v[2])

\* The DiscoveredDev a returned Option hands to the caller: an owned value
\* wrapping the handle, with no borrow of the set it came from.
Handed(r) == IF r[1] = "Some" THEN {r[2]} ELSE {}

\* DiscoveredDevices::get
Get ==
    /\ set.live /\ ~crashed
    /\ \E index \in -1..(MaxDevs + 1) :
         IF UsizeGe(index, CountOf(set))
         THEN /\ getResult' = [index |-> index, result |-> None, read |-> "no"]
              /\ crashed' = crashed
              /\ held' = held
         ELSE \E v \in ReadSlot(set.inner, index) :
                /\ getResult' = [index |-> index, result |-> GetReturn(v),
                                 read |-> IF DefinedRead(set.inner, index)
                                          THEN "defined" ELSE "undefined"]
                /\ crashed' = (GetReturn(v) = Crash)
                /\ held' = held \cup Handed(GetReturn(v))
    /\ UNCHANGED <<set, mem, countResult, produced, nextCalls, ended>>
    /\ UNCHANGED <<freed, lastUse, devFreed>>
    /\ UNCHANGED <<enrollVars, last, ownVars, sessVars>>

\* The item number Iterator::next leaves in the struct: the code reads the
\* slot at current_item_number and never writes the field.
NextItemNumber(s) == s.current_item_number

\* Iterator for DiscoveredDevices: next
IterNext ==
    /\ set.live /\ ~crashed
    /\ nextCalls < MaxNext
    /\ \E v \in ReadSlot(set.inner, set.current_item_number) :
         /\ produced' = IF GetReturn(v)[1] = "Some"
                        THEN Append(produced, GetReturn(v)[2]) ELSE produced
         /\ ended' = (ended \/ GetReturn(v) = None)
         /\ crashed' = (GetReturn(v) = Crash)
         /\ held' = held \cup Handed(GetReturn(v))
    /\ nextCalls' = nextCalls + 1
    /\ set' = [set EXCEPT !.current_item_number = NextItemNumber(set)]
    /\ UNCHANGED <<mem, countResult, getResult, freed, lastUse, devFreed>>
    /\ UNCHANGED <<enrollVars, last, ownVars, sessVars>>

\* Drop for DiscoveredDevices: fp_dscv_devs_free(self.inner) releases the
\* array and the discovered devices in it.
DropSet ==
    /\ set.live /\ ~crashed
    /\ set' = [set EXCEPT !.live = FALSE]
    /\ freed' = freed + 1
    /\ UNCHANGED <<mem, countResult, getResult, produced, nextCalls, ended, crashed,
                   held, lastUse, devFreed>>
    /\ UNCHANGED <<enrollVars, last, ownVars, sessVars>>

\* The operations of DiscoveredDev that pass its handle to the native library.
DevOps == {"open", "get_driver", "get_devtype"}

\* A call on a DiscoveredDev the caller holds.  The value is owned and
\* carries no lifetime of the set, so the call is accepted whether or not the
\* set is still alive; on a handle whose array was released the native read
\* is undefined and may trap.
UseDev ==
    /\ ~crashed
    /\ \E dev \in held, op \in DevOps :
         /\ lastUse' = [op |-> op, dev |-> dev, alive |-> set.live]
         /\ IF set.live THEN crashed' = crashed ELSE crashed' \in BOOLEAN
    /\ UNCHANGED <<set, mem, countResult, getResult, produced, nextCalls, ended,
                   held, freed, devFreed>>
    /\ UNCHANGED <<enrollVars, last, ownVars, sessVars>>

\* What dropping a DiscoveredDev releases: the type has no Drop impl.
DiscoveredDevDrop(dev) == {}

\* The caller drops a DiscoveredDev it holds.
DropDev ==
    /\ ~crashed
    /\ \E dev \in held :
         /\ held' = held \ {dev}
         /\ devFreed' = devFreed \cup DiscoveredDevDrop(dev)
    /\ UNCHANGED <<set, mem, countResult, getResult, produced, nextCalls, ended,
                   crashed, freed, lastUse>>
    /\ UNCHANGED <<enrollVars, last, ownVars, sessVars>>

NoUse == [op |-> "none", dev |-> NULL, alive |-> TRUE]

DiscInit ==
    /\ held = {}
    /\ freed = 0
    /\ lastUse = NoUse
    /\ devFreed = {}
    /\ set = [live |-> FALSE, inner |-> NULL, current_item_number |-> 0]
    /\ mem = <<>>
    /\ countResult = <<>>
    /\ getResult = [index |-> 0, result |-> <<"NotCalled">>, read |-> "no"]
    /\ produced = <<>>
    /\ nextCalls = 0
    /\ ended = FALSE
    /\ crashed = FALSE

(***************************************************************************)
(* Enrollment                                                              *)
(***************************************************************************)

\* fp_enroll_result / EnrollResult discriminants.
Complete == 1
Fail == 2
Pass == 3
RetryCodes == {100, 101, 102, 103}

\* A conversion that takes the Pass discriminant for a retry.
EnrollResultTryFromSwapped(value) ==
    CASE value = 1 -> Ok("Complete")
      [] value = 2 -> Ok("Fail")
      [] value = 3 -> Ok("Retry")
      [] value = 100 -> Ok("Pass")
      [] value = 101 -> Ok("RetryTooShort")
      [] value = 102 -> Ok("RetryCenterFinger")
      [] value = 103 -> Ok("RetryRemoveFinger")
      [] OTHER -> Err("TryFromError", value)

\* TryFrom<u32> for EnrollResult
EnrollResultTryFrom(value) ==
    CASE value = 1 -> Ok("Complete")
      [] value = 2 -> Ok("Fail")
      [] value = 3 -> Ok("Pass")
      [] value = 100 -> Ok("Retry")
      [] value = 101 -> Ok("RetryTooShort")
      [] value = 102 -> Ok("RetryCenterFinger")
      [] value = 103 -> Ok("RetryRemoveFinger")
      [] OTHER -> Err("TryFromError", value)

\* An enroll_finger_image that hands a negative code to the conversion.
EnrollFingerImageNoAbort(result) == EnrollResultTryFrom(result)

\* Device::enroll_finger_image, given the code fp_enroll_finger_img returned.
EnrollFingerImage(result) ==
    IF result < 0
    THEN Err("UnexpectedAbort", result)
    ELSE EnrollResultTryFrom(result)

\* The stage the next native enroll call runs: the first one when no
\* enrollment is in process, else the stage in process.
CurStage == IF nativeStage = 0 THEN 1 ELSE nativeStage

\* A native that aborts on a negative code only and keeps the stage on Fail.
StageAfterKeepsOnFail(cur, code) ==
    CASE code = Pass -> cur + 1
      [] code \in RetryCodes \cup {Fail} -> cur
      [] OTHER -> 0

\* The native enrollment state after a call that ran stage cur and returned
\* code, as the documentation of enroll_finger_image states it: Pass advances,
\* a retry code keeps the stage, a negative code or Fail aborts the
\* enrollment, Complete ends it.
\* A native that moves to the next stage on a retry code too.
StageAfterRetryAdvances(cur, code) ==
    CASE code = Pass \/ code \in RetryCodes -> cur + 1
      [] OTHER -> 0

StageAfter(cur, code) ==
    CASE code = Pass -> cur + 1
      [] code \in RetryCodes -> cur
      [] OTHER -> 0

\* The codes the documented protocol lets a call that runs stage cur return,
\* and whether it assigns print_data: Pass only from a non-final stage,
\* Complete only from the final one, and print_data only with Complete.
ConformsCompleteAnyStage(cur, code, assigned) ==
    /\ code \in {c \in Codes : c < 0} \cup {Complete, Fail, Pass} \cup RetryCodes
    /\ code = Pass => cur < nrStages
    /\ assigned <=> code = Complete

Conforms(cur, code, assigned) ==
    /\ code \in {c \in Codes : c < 0} \cup {Complete, Fail, Pass} \cup RetryCodes
    /\ code = Pass => cur < nrStages
    /\ code = Complete => cur = nrStages
    /\ assigned <=> code = Complete

\* The print handle after the native call: assigned when the native says so.
PrintAfter(print, assigned) == IF assigned THEN 1 ELSE print

\* DiscoveredDev::open on a device with n enroll stages.
Open ==
    /\ nrStages = 0
    /\ \E n \in 1..MaxStages : nrStages' = n
    /\ UNCHANGED <<nativeStage, gen, data, genReturn, resumes, genCalls, passes,
                   yieldedPass, yieldedOther, lastYield, templates, lastCall,
                   prevCall, stageResult, calls>>
    /\ UNCHANGED <<discVars, last, ownVars, sessVars>>

\* Device::enroll: a new generator, its PrintData::new() not yet created
\* (the body runs at the first resume).
Enroll ==
    /\ nrStages > 0
    /\ gen' = "suspended"
    /\ data' = NULL
    /\ genReturn' = NotCalled
    /\ resumes' = 0
    /\ genCalls' = 0
    /\ passes' = 0
    /\ yieldedPass' = 0
    /\ yieldedOther' = 0
    /\ lastYield' = NotCalled
    /\ templates' = 0
    /\ UNCHANGED <<nrStages, nativeStage, lastCall, prevCall, stageResult, calls>>
    /\ UNCHANGED <<discVars, last, ownVars, sessVars>>

\* A loop that returns the print with Complete without looking at it.
ResumeOutcomeNoNullCheck(result, print) ==
    IF result[1] = "Ok"
    THEN IF result[2] = "Complete"
         THEN <<"return", Ok(print)>>
         ELSE <<"yield", result[2]>>
    ELSE <<"return", result>>

\* A loop that yields every successful result, Complete included.
ResumeOutcomeYieldsAll(result, print) ==
    IF result[1] = "Ok"
    THEN <<"yield", result[2]>>
    ELSE <<"return", result>>

\* A loop that goes round again on a retry instead of yielding it.
ResumeOutcomeRetriesInside(result, print) ==
    IF result[1] = "Ok"
    THEN IF result[2] = "Complete"
         THEN IF print = NULL
              THEN <<"return", Err("Obscure", 0)>>
              ELSE <<"return", Ok(print)>>
         ELSE IF result[2] \in {"Fail", "Pass"}
              THEN <<"yield", result[2]>>
              ELSE <<"continue">>
    ELSE <<"return", result>>

\* What one iteration of the generator's loop does with the result of
\* enroll_finger_image and the print handle: "return" with a value, or
\* "yield" the enroll result ("continue" would be a further iteration
\* without giving control back; no arm of the match does that).
ResumeOutcome(result, print) ==
    IF result[1] = "Ok"
    THEN IF result[2] = "Complete"
         THEN IF print = NULL
              THEN <<"return", Err("Obscure", 0)>>
              ELSE <<"return", Ok(print)>>
         ELSE <<"yield", result[2]>>
    ELSE <<"return", result>>

\* One iteration of the generator's loop, entered by a resume (or from the
\* iteration before, had that neither yielded nor returned): one native
\* call that ran stage `ran`, returned `code` and left the native at stage
\* `ns`.
ResumeStep(code, assigned, ran, ns) ==
    LET print == PrintAfter(data, assigned)
        out == ResumeOutcome(EnrollFingerImage(code), print)
    IN  /\ gen \in {"suspended", "running"}
        /\ calls < MaxCalls
        /\ data' = print
        /\ nativeStage' = ns
        /\ resumes' = IF gen = "suspended" THEN resumes + 1 ELSE resumes
        /\ genCalls' = genCalls + 1
        /\ calls' = calls + 1
        /\ passes' = IF code = Pass THEN passes + 1 ELSE passes
        /\ prevCall' = lastCall
        /\ lastCall' = [code |-> code, ran |-> ran, via |-> "gen", print |-> print]
        /\ CASE out[1] = "yield" ->
                /\ gen' = "suspended"
                /\ lastYield' = <<out[2]>>
                /\ yieldedPass' = IF out[2] = "Pass" THEN yieldedPass + 1 ELSE yieldedPass
                /\ yieldedOther' = IF out[2] = "Pass" THEN yieldedOther ELSE yieldedOther + 1
                /\ UNCHANGED <<genReturn, templates>>
             [] out[1] = "return" ->
                /\ gen' = "done"
                /\ genReturn' = out[2]
                /\ templates' = IF out[2][1] = "Ok" THEN templates + 1 ELSE templates
                /\ UNCHANGED <<lastYield, yieldedPass, yieldedOther>>
             [] OTHER ->
                /\ gen' = "running"
                /\ UNCHANGED <<genReturn, templates, lastYield, yieldedPass, yieldedOther>>
        /\ UNCHANGED <<nrStages, stageResult>>
        /\ UNCHANGED <<discVars, last, ownVars, sessVars>>

\* resume() on a device whose native library follows the documented protocol.
Resume ==
    \E code \in Codes, assigned \in BOOLEAN :
        /\ Conforms(CurStage, code, assigned)
        /\ ResumeStep(code, assigned, CurStage, StageAfter(CurStage, code))

\* resume() with the native call answered by a script, as a test double
\* does: any code at any time, the print assigned or not with Complete.
ResumeDriven ==
    \E code \in Codes, assigned \in BOOLEAN :
        /\ assigned => code = Complete
        /\ ResumeStep(code, assigned, 0, nativeStage)

\* A direct Device::enroll_finger_image call with a print of the caller's.
EnrollStage ==
    \E code \in Codes, assigned \in BOOLEAN :
        /\ nrStages > 0
        /\ calls < MaxCalls
        /\ Conforms(CurStage, code, assigned)
        /\ stageResult' = EnrollFingerImage(code)
        /\ nativeStage' = StageAfter(CurStage, code)
        /\ calls' = calls + 1
        /\ prevCall' = lastCall
        /\ lastCall' = [code |-> code, ran |-> CurStage, via |-> "direct",
                        print |-> PrintAfter(NULL, assigned)]
        /\ UNCHANGED <<nrStages, gen, data, genReturn, resumes, genCalls, passes,
                       yieldedPass, yieldedOther, lastYield, templates>>
        /\ UNCHANGED <<discVars, last, ownVars, sessVars>>

NoCall == [code |-> 0, ran |-> 0, via |-> "none", print |-> NULL]

EnrollInit ==
    /\ nrStages = 0
    /\ nativeStage = 0
    /\ gen = "none"
    /\ data = NULL
    /\ genReturn = NotCalled
    /\ resumes = 0
    /\ genCalls = 0
    /\ passes = 0
    /\ yieldedPass = 0
    /\ yieldedOther = 0
    /\ lastYield = NotCalled
    /\ templates = 0
    /\ lastCall = NoCall
    /\ prevCall = NoCall
    /\ stageResult = NotCalled
    /\ calls = 0


(***************************************************************************)
(* Single calls into the native layer                                      *)
(***************************************************************************)

Fingers == 1..10

\* A serialized template is opaque to the wrapper: what matters of a buffer
\* is whether fp_print_data_from_data accepts it and which template it holds.
Buffers == {[valid |-> FALSE, tmpl |-> 0]} \cup
           {[valid |-> TRUE, tmpl |-> t] : t \in 1..MaxTemplates}

Galleries == UNION {[1..n -> Buffers] : n \in 0..MaxGallery}

\* fp_print_data_from_data: the print handle of the template, NULL when the
\* buffer is malformed.
NativeFromData(buf) == IF buf.valid THEN buf.tmpl ELSE NULL

NoInput == [code |-> 0, finger |-> 0, handle |-> NULL, gallery |-> <<>>, scan |-> 0,
            offset |-> 0, bytes |-> <<>>, image |-> NULL, dir |-> FALSE, file |-> FALSE,
            imaging |-> FALSE, identification |-> FALSE, array |-> <<>>,
            released |-> <<>>]

Call(op, input, result) == [op |-> op, in |-> input, result |-> result]

\* TryFrom<u32> for VerifyResult (fprint-rs; fprint-sys matches the same
\* five constants).
VerifyResultTryFrom(value) ==
    CASE value = 0 -> Ok("NoMatch")
      [] value = 1 -> Ok("Match")
      [] value = 100 -> Ok("Retry")
      [] value = 102 -> Ok("RetryCenterFinger")
      [] value = 103 -> Ok("RetryRemoveFinger")
      [] OTHER -> Err("TryFromError", value)

\* Device::verify_finger_image (fprint-rs), given the code
\* fp_verify_finger_img returned.
VerifyFingerImage(result) ==
    IF result < 0
    THEN Err("VerifyFailed", result)
    ELSE LET r == VerifyResultTryFrom(result)
         IN  IF r[1] = "Err" THEN r
             ELSE IF r[2] \in {"Match", "NoMatch"} THEN r
             ELSE Err("RetryVerification", r[2])

\* Device::verify_finger_image (fprint-sys): the converted result is returned
\* as it is.
SysVerifyFingerImage(result) ==
    IF result < 0
    THEN Err("VerifyFailed", result)
    ELSE VerifyResultTryFrom(result)

\* Device::load_data, given the code fp_print_data_load returned and the
\* handle it left in `data`.
LoadData(result, handle, finger) ==
    IF handle = NULL THEN Err("NullPtr", "LoadPrintData")
    ELSE IF result = -ENOENT THEN Err("FingerprintNotFound", finger)
    ELSE IF result # 0 THEN Err("Obscure", result)
    ELSE Ok(handle)

\* The native array Device::identify_finger_image (fprint-sys) builds: every
\* buffer is parsed, the failures are filtered out, and a NULL is pushed.
ParsedGallery(gallery) ==
    LET raw == [i \in 1..Len(gallery) |-> NativeFromData(gallery[i])]
    IN  Append(SelectSeq(raw, LAMBDA h : h # NULL), NULL)

\* Offsets (0-based) of the prints of a null-terminated array that match the
\* scanned finger.
MatchOffsets(array, scan) ==
    {i \in 0..(Len(array) - 2) : array[i + 1] = scan}

Min(S) == CHOOSE x \in S : \A y \in S : x <= y

\* fp_identify_finger_img on a null-terminated array with `scan` on the
\* sensor: the <<code, match_offset>> pairs it can hand back.  A completed
\* scan reports the first matching print or no match; otherwise any other
\* code, with match_offset left as the caller initialised it (0).
NativeIdentify(array, scan) ==
    (IF MatchOffsets(array, scan) # {}
     THEN {<<1, Min(MatchOffsets(array, scan))>>}
     ELSE {<<0, 0>>})
    \cup {<<c, 0>> : c \in Codes \ {0, 1}}

\* Device::identify_finger_image (fprint-sys), given what the native call
\* returned.
IdentifyFingerImage(result, offset) ==
    IF result = -ENOTSUP THEN Err("NotSupported", "Identify")
    ELSE IF result < 0 THEN Err("IdentifyFailed", result)
    ELSE LET r == VerifyResultTryFrom(result)
         IN  IF r[1] = "Err" THEN r
             ELSE IF r[2] = "Match" THEN Ok(<<"Matched", offset>>)
             ELSE Ok(<<"Error", r[2]>>)

\* How often identify_finger_image (fprint-sys) has passed each print of
\* its native array to fp_print_data_free by the time it returns: the array
\* is a Vec of raw pointers, dropping it frees the Vec's buffer only, and the
\* function calls fp_print_data_free on no path.
IdentifyReleased(array) == [i \in 1..(Len(array) - 1) |-> 0]

\* The unified representation of a stored print is defined by the native
\* library: here a two-byte header followed by the template.
TemplateBytes(t) == <<70, 80, t>>

\* The byte buffers handed to from_bytes: serialized templates, and buffers
\* that are truncated, extended, empty or have a wrong header.
ByteBuffers ==
    {TemplateBytes(t) : t \in 1..MaxTemplates} \cup
    {<<>>, <<70>>, <<70, 80>>, <<70, 80, 0>>, <<80, 70, 1>>, <<70, 80, 1, 0>>}

\* fp_print_data_get_data(print, &buf): a freshly allocated buffer with the
\* unified representation (whatever lies behind it on the heap is not part
\* of it) and its length; length 0 on error.
NativeGetData(print) ==
    IF print = NULL
    THEN [buf |-> <<>>, length |-> 0]
    ELSE [buf |-> TemplateBytes(print) \o <<0>>, length |-> Len(TemplateBytes(print))]

\* fp_print_data_from_data(buf, len): the print the first len bytes of buf
\* hold, NULL when they are not an untouched buffer of get_data.
NativeFromBytes(buf, len) ==
    IF len <= Len(buf) /\ SubSeq(buf, 1, len) \in {TemplateBytes(t) : t \in 1..MaxTemplates}
    THEN buf[len]
    ELSE NULL

\* An as_bytes that builds its slice one byte short.
AsBytesShort(print) ==
    LET r == NativeGetData(print)
    IN  IF r.length = 0
        THEN Err("ConvertationFailed", "none")
        ELSE Ok(SubSeq(r.buf, 1, r.length - 1))

\* PrintData::as_bytes (fprint-sys): std::slice::from_raw_parts(buf, length).
AsBytes(print) ==
    LET r == NativeGetData(print)
    IN  IF r.length = 0
        THEN Err("ConvertationFailed", "none")
        ELSE Ok(SubSeq(r.buf, 1, r.length))

\* PrintData::from_bytes_raw (fprint-sys)
FromBytesRaw(bytes) ==
    LET print == NativeFromBytes(bytes, Len(bytes))
    IN  IF print = NULL
        THEN Err("NeedError", "none")
        ELSE Ok(print)

\* PrintData::from_bytes (fprint-sys): from_bytes_raw(bytes).map(with_data)
FromBytes(bytes) ==
    LET r == FromBytesRaw(bytes)
    IN  IF r[1] = "Ok" THEN Ok(r[2]) ELSE r

\* PrintData::get_data (fprint-rs): the Location of the native buffer.
GetData(print) ==
    LET r == NativeGetData(print)
    IN  IF r.length = 0
        THEN Err("ConvertationFailed", "none")
        ELSE Ok([inner |-> r.buf, length |-> r.length])

\* TryFrom<Location> for PrintData (fprint-rs)
PrintDataTryFrom(value) ==
    LET print == NativeFromBytes(value.inner, value.length)
    IN  IF print = NULL
        THEN Err("TryFromError", 0)
        ELSE Ok(print)

\* Path::exists for a path to a file: the file itself is there (and so is the
\* directory that holds it).
PathExists(dir, file) == dir /\ file

\* Image::save_to_file, given what the file system holds and the code
\* fp_img_save_to_file returns when it is called.
ImageSaveToFile(dir, file, result) ==
    IF ~PathExists(dir, file) THEN Err("PathNotExists", "none")
    ELSE IF result = 0 THEN Ok("unit")
    ELSE Err("SavePrint", result)

\* A capture_image without the arm for the not-supported sentinel.
CaptureImageNoSentinel(result, image) ==
    CASE result = 0 -> Ok(image)
      [] OTHER -> Err("Other", result)

\* Device::capture_image, given the code fp_dev_img_capture returned and the
\* image handle it left.
CaptureImage(result, image) ==
    CASE result = 0 -> Ok(image)
      [] result = -ENOTSUP -> Err("NotSupported", "CapturingImage")
      [] OTHER -> Err("Other", result)

\* DiscoveredDev::open: the Device over whatever fp_dev_open returned.  The
\* return type is Device, so every call is a success for the caller.
DiscoveredDevOpen(device) == Ok(device)

\* Image::binarize, given the handle fp_img_binarize returned.
ImageBinarize(result) ==
    IF result = NULL THEN Err("NullPtr", "Binarize") ELSE Ok(result)

\* TryFrom<(u32, PrintData, Image)> for EnrollResult (fprint-sys)
SysEnrollResultTryFrom(raw_value, print, image) ==
    CASE raw_value = 1 -> Ok(<<"Complete", print, image>>)
      [] raw_value = 2 -> Ok(<<"Fail">>)
      [] raw_value = 3 -> Ok(<<"Pass", image>>)
      [] raw_value = 100 -> Ok(<<"Retry">>)
      [] raw_value = 101 -> Ok(<<"RetryTooShort">>)
      [] raw_value = 102 -> Ok(<<"RetryCenterFinger">>)
      [] raw_value = 103 -> Ok(<<"RetryRemoveFinger">>)
      [] OTHER -> Err("TryFromError", raw_value)

\* Device::enroll_finger_image (fprint-sys), given the code
\* fp_enroll_finger_img returned and the print and image handles it left.
SysEnrollFingerImage(result, print, image) ==
    IF result < 0
    THEN Err("UnexpectedAbort", result)
    ELSE SysEnrollResultTryFrom(result, print, image)

\* The process panicked: the call did not return.
Panic == <<"Panic">>

\* Device::delete_data, given the code fp_print_data_delete returned: the
\* assert_eq!({result <= 0}, true) comes first.
DeleteData(result, finger) ==
    IF ~(result <= 0) THEN Panic
    ELSE IF result = 0 THEN Ok("unit")
    ELSE Err("RemoveFingerprint", finger)

\* fp_dev_supports_imaging / fp_dev_supports_identification: non-zero when
\* the device has the capability.
NativeSupports(capability) == IF capability THEN 1 ELSE 0

\* Device::supports_imaging, given what fp_dev_supports_imaging returned.
SupportsImaging(result) == result = 0

\* Device::supports_identification, given what
\* fp_dev_supports_identification returned.
SupportsIdentification(result) == result = 0

\* The codes the native capture and identify calls can return on a device
\* with or without the capability: without it, the not-supported sentinel.
NativeCodesFor(capability) == IF capability THEN Codes ELSE {-ENOTSUP}

\* The Finger variants, in declaration order.
FingerNames == <<"LeftThumb", "LeftIndex", "LeftMiddle", "LeftRing", "LeftLittle",
                 "RightThumb", "RightIndex", "RightMiddle", "RightRing", "RightLittle">>

\* `finger as u32`: the discriminant the enum declaration gives the variant.
FingerAsU32(f) ==
    CASE f = "LeftThumb" -> 1
      [] f = "LeftIndex" -> 2
      [] f = "LeftMiddle" -> 3
      [] f = "LeftRing" -> 4
      [] f = "LeftLittle" -> 5
      [] f = "RightThumb" -> 6
      [] f = "RightIndex" -> 7
      [] f = "RightMiddle" -> 8
      [] f = "RightRing" -> 9
      [] f = "RightLittle" -> 10

\* A conversion whose arms for 6 and 7 are exchanged.
FingerTryFromSwapped(value) ==
    CASE value = 1 -> Ok("LeftThumb")
      [] value = 2 -> Ok("LeftIndex")
      [] value = 3 -> Ok("LeftMiddle")
      [] value = 4 -> Ok("LeftRing")
      [] value = 5 -> Ok("LeftLittle")
      [] value = 6 -> Ok("RightIndex")
      [] value = 7 -> Ok("RightThumb")
      [] value = 8 -> Ok("RightMiddle")
      [] value = 9 -> Ok("RightRing")
      [] value = 10 -> Ok("RightLittle")
      [] OTHER -> Err("TryFromError", value)

\* TryFrom<fp_finger> for Finger
FingerTryFrom(value) ==
    CASE value = 1 -> Ok("LeftThumb")
      [] value = 2 -> Ok("LeftIndex")
      [] value = 3 -> Ok("LeftMiddle")
      [] value = 4 -> Ok("LeftRing")
      [] value = 5 -> Ok("LeftLittle")
      [] value = 6 -> Ok("RightThumb")
      [] value = 7 -> Ok("RightIndex")
      [] value = 8 -> Ok("RightMiddle")
      [] value = 9 -> Ok("RightRing")
      [] value = 10 -> Ok("RightLittle")
      [] OTHER -> Err("TryFromError", value)

\* No wrapper call has been made yet: each behaviour of Spec makes one call,
\* on inputs and native answers drawn from the bounded sets.
Idle == last.op = "none"

Verify ==
    /\ Idle
    /\ \E code \in Codes :
         last' = Call("verify", [NoInput EXCEPT !.code = code], VerifyFingerImage(code))
    /\ UNCHANGED <<discVars, enrollVars, ownVars, sessVars>>

SysVerify ==
    /\ Idle
    /\ \E code \in Codes :
         last' = Call("sys_verify", [NoInput EXCEPT !.code = code],
                      SysVerifyFingerImage(code))
    /\ UNCHANGED <<discVars, enrollVars, ownVars, sessVars>>

Load ==
    /\ Idle
    /\ \E code \in Codes, handle \in {NULL, 1}, finger \in Fingers :
         last' = Call("load",
                      [NoInput EXCEPT !.code = code, !.handle = handle, !.finger = finger],
                      LoadData(code, handle, finger))
    /\ UNCHANGED <<discVars, enrollVars, ownVars, sessVars>>

Identify ==
    /\ Idle
    /\ \E gallery \in Galleries, scan \in 1..MaxTemplates :
         \E answer \in NativeIdentify(ParsedGallery(gallery), scan) :
            last' = Call("identify",
                         [NoInput EXCEPT !.code = answer[1], !.offset = answer[2],
                                         !.gallery = gallery, !.scan = scan,
                                         !.array = ParsedGallery(gallery),
                                         !.released = IdentifyReleased(ParsedGallery(gallery))],
                         IdentifyFingerImage(answer[1], answer[2]))
    /\ UNCHANGED <<discVars, enrollVars, ownVars, sessVars>>

\* as_bytes on a freshly enrolled template, from_bytes on the buffer, and
\* as_bytes on what it returned (fprint-sys).
SysRoundTrip ==
    /\ Idle
    /\ \E t \in 1..MaxTemplates :
         LET first == AsBytes(t)
             parsed == IF first[1] = "Ok" THEN FromBytes(first[2]) ELSE first
             second == IF parsed[1] = "Ok" THEN AsBytes(parsed[2]) ELSE parsed
         IN  last' = Call("sys_round_trip", [NoInput EXCEPT !.handle = t],
                          <<"RoundTrip", first, parsed, second>>)
    /\ UNCHANGED <<discVars, enrollVars, ownVars, sessVars>>

\* get_data on a freshly enrolled template, from_data on the Location, and
\* get_data on what it returned (fprint-rs).
RsRoundTrip ==
    /\ Idle
    /\ \E t \in 1..MaxTemplates :
         LET first == GetData(t)
             parsed == IF first[1] = "Ok" THEN PrintDataTryFrom(first[2]) ELSE first
             second == IF parsed[1] = "Ok" THEN GetData(parsed[2]) ELSE parsed
         IN  last' = Call("rs_round_trip", [NoInput EXCEPT !.handle = t],
                          <<"RoundTrip", first, parsed, second>>)
    /\ UNCHANGED <<discVars, enrollVars, ownVars, sessVars>>

\* PrintData::from_bytes (fprint-sys) on a buffer of the caller's.
SysFromBytes ==
    /\ Idle
    /\ \E bytes \in ByteBuffers :
         last' = Call("sys_from_bytes", [NoInput EXCEPT !.bytes = bytes], FromBytes(bytes))
    /\ UNCHANGED <<discVars, enrollVars, ownVars, sessVars>>

\* PrintData::from_data (fprint-rs) on a Location over a buffer of the
\* caller's.
RsFromData ==
    /\ Idle
    /\ \E bytes \in ByteBuffers :
         last' = Call("rs_from_data", [NoInput EXCEPT !.bytes = bytes],
                      PrintDataTryFrom([inner |-> bytes, length |-> Len(bytes)]))
    /\ UNCHANGED <<discVars, enrollVars, ownVars, sessVars>>

\* Image::save_to_file on a path whose directory exists or not, and whose file
\* exists or not (a file exists only inside an existing directory).
SaveToFile ==
    /\ Idle
    /\ \E dir \in BOOLEAN, file \in BOOLEAN, code \in Codes :
         /\ file => dir
         /\ last' = Call("save_to_file",
                         [NoInput EXCEPT !.dir = dir, !.file = file, !.code = code],
                         ImageSaveToFile(dir, file, code))
    /\ UNCHANGED <<discVars, enrollVars, ownVars, sessVars>>

\* Device::capture_image
Capture ==
    /\ Idle
    /\ \E code \in Codes, image \in {NULL, 1} :
         last' = Call("capture_image", [NoInput EXCEPT !.code = code, !.image = image],
                      CaptureImage(code, image))
    /\ UNCHANGED <<discVars, enrollVars, ownVars, sessVars>>

\* DiscoveredDev::open: fp_dev_open hands back a device, or NULL on error.
OpenDevice ==
    /\ Idle
    /\ \E device \in {NULL, 1} :
         last' = Call("open", [NoInput EXCEPT !.handle = device], DiscoveredDevOpen(device))
    /\ UNCHANGED <<discVars, enrollVars, ownVars, sessVars>>

\* Image::binarize
BinarizeImage ==
    /\ Idle
    /\ \E image \in {NULL, 1} :
         last' = Call("binarize", [NoInput EXCEPT !.image = image], ImageBinarize(image))
    /\ UNCHANGED <<discVars, enrollVars, ownVars, sessVars>>

\* Device::enroll_finger_image (fprint-sys)
SysEnrollStage ==
    /\ Idle
    /\ \E code \in Codes, print \in {NULL, 1}, image \in {NULL, 1} :
         last' = Call("sys_enroll",
                      [NoInput EXCEPT !.code = code, !.handle = print, !.image = image],
                      SysEnrollFingerImage(code, print, image))
    /\ UNCHANGED <<discVars, enrollVars, ownVars, sessVars>>

\* Device::delete_data
Delete ==
    /\ Idle
    /\ \E code \in Codes, finger \in Fingers :
         last' = Call("delete", [NoInput EXCEPT !.code = code, !.finger = finger],
                      DeleteData(code, finger))
    /\ UNCHANGED <<discVars, enrollVars, ownVars, sessVars>>

\* The capability queries on an opened device, followed by capture_image and
\* identify_finger_image on it.
Probe ==
    /\ Idle
    /\ \E imaging \in BOOLEAN, identification \in BOOLEAN :
         \E cc \in NativeCodesFor(imaging), ic \in NativeCodesFor(identification) :
            last' = Call("probe",
                         [NoInput EXCEPT !.imaging = imaging,
                                         !.identification = identification],
                         <<"Probe",
                           SupportsImaging(NativeSupports(imaging)),
                           SupportsIdentification(NativeSupports(identification)),
                           CaptureImage(cc, 1),
                           IdentifyFingerImage(ic, 0)>>)
    /\ UNCHANGED <<discVars, enrollVars, ownVars, sessVars>>

\* Device::enroll_finger_image (fprint-rs) on any code of the native call.
EnrollStageCall ==
    /\ Idle
    /\ \E code \in Codes :
         last' = Call("enroll_stage", [NoInput EXCEPT !.code = code], EnrollFingerImage(code))
    /\ UNCHANGED <<discVars, enrollVars, ownVars, sessVars>>

\* Finger::try_from on a raw fp_finger value (a u32).
FingerDecode ==
    /\ Idle
    /\ \E raw \in 0..MaxRaw :
         last' = Call("finger_decode", [NoInput EXCEPT !.code = raw], FingerTryFrom(raw))
    /\ UNCHANGED <<discVars, enrollVars, ownVars, sessVars>>

\* Finger::try_from(f as u32) for a Finger value f.
FingerRoundTrip ==
    /\ Idle
    /\ \E i \in 1..Len(FingerNames) :
         last' = Call("finger_round_trip",
                      [NoInput EXCEPT !.finger = i, !.code = FingerAsU32(FingerNames[i])],
                      FingerTryFrom(FingerAsU32(FingerNames[i])))
    /\ UNCHANGED <<discVars, enrollVars, ownVars, sessVars>>

CallInit == last = Call("none", NoInput, NotCalled)

(***************************************************************************)
(* Ownership of native handles                                             *)
(***************************************************************************)

\* The wrapper types that hold a native handle, and the operation that
\* creates each from a handle the native library hands back.
Constructors ==
    { <<"Device", "open">>,                  \* fprint-rs Device
      <<"SysDevice", "open">>,               \* fprint-sys Device
      <<"PrintData", "load_data">>,          \* fprint-rs PrintData
      <<"SysPrintData", "load_data">>,       \* fprint-sys PrintData
      <<"SysPrintData", "enroll">>,          \*   EnrollResult::Complete(data, image)
      <<"Image", "capture_image">>,          \* fprint-rs Image
      <<"SysImage", "capture_image">>,       \* fprint-sys Image
      <<"SysImage", "enroll">>,              \*   EnrollResult::Pass(image)
      <<"DiscoveredDevices", "discover">> }  \* fprint-rs DiscoveredDevices

ImageKinds == {"Image", "SysImage"}

\* The types whose declaration carries #[derive(Clone)].
DerivesClone(kind) ==
    kind \in {"Device", "SysDevice", "SysPrintData", "SysImage", "DiscoveredDevices"}

\* The types with an `impl Drop` that hands the handle to the native release
\* function (fp_dev_close, fp_print_data_free, fp_dscv_devs_free).  Neither
\* crate has an `impl Drop for Image`.
ReleasesOnDrop(kind) ==
    kind \in {"Device", "SysDevice", "PrintData", "SysPrintData", "DiscoveredDevices"}

NoObj == [kind |-> "none", handle |-> NULL]
NoNative == [kind |-> "none", via |-> "none", clones |-> 0, released |-> 0]

FreeSlots == {i \in 1..MaxObjs : objs[i].kind = "none"}
LiveSlots == {i \in 1..MaxObjs : objs[i].kind # "none"}

\* A constructor wraps a fresh handle of the native library.
Acquire ==
    /\ FreeSlots # {}
    /\ allocated < MaxHandles
    /\ \E c \in Constructors :
         /\ objs' = [objs EXCEPT ![Min(FreeSlots)] =
                        [kind |-> c[1], handle |-> allocated + 1]]
         /\ native' = [native EXCEPT ![allocated + 1] =
                        [kind |-> c[1], via |-> c[2], clones |-> 0, released |-> 0]]
    /\ allocated' = allocated + 1
    /\ UNCHANGED <<discVars, enrollVars, last, sessVars>>

\* Image::binarize: fp_img_binarize hands back a new image, wrapped in a new
\* Image; the original is untouched.
Binarize ==
    /\ FreeSlots # {}
    /\ allocated < MaxHandles
    /\ \E i \in LiveSlots :
         /\ objs[i].kind \in ImageKinds
         /\ objs' = [objs EXCEPT ![Min(FreeSlots)] =
                        [kind |-> objs[i].kind, handle |-> allocated + 1]]
         /\ native' = [native EXCEPT ![allocated + 1] =
                        [kind |-> objs[i].kind, via |-> "binarize", clones |-> 0,
                         released |-> 0]]
    /\ allocated' = allocated + 1
    /\ UNCHANGED <<discVars, enrollVars, last, sessVars>>

\* Clone::clone of a wrapper that derives it: a second value with the same
\* raw pointer.
CloneObj ==
    /\ FreeSlots # {}
    /\ \E i \in LiveSlots :
         /\ DerivesClone(objs[i].kind)
         /\ native[objs[i].handle].clones < MaxClones
         /\ objs' = [objs EXCEPT ![Min(FreeSlots)] = objs[i]]
         /\ native' = [native EXCEPT ![objs[i].handle].clones = @ + 1]
    /\ UNCHANGED allocated
    /\ UNCHANGED <<discVars, enrollVars, last, sessVars>>

\* A wrapper value goes out of scope: its Drop impl, when it has one, hands
\* the handle to the native release function.
DropObj ==
    /\ \E i \in LiveSlots :
         /\ objs' = [objs EXCEPT ![i] = NoObj]
         /\ native' = IF ReleasesOnDrop(objs[i].kind)
                      THEN [native EXCEPT ![objs[i].handle].released = @ + 1]
                      ELSE native
    /\ UNCHANGED allocated
    /\ UNCHANGED <<discVars, enrollVars, last, sessVars>>

OwnInit ==
    /\ objs = [i \in 1..MaxObjs |-> NoObj]
    /\ native = [h \in 1..MaxHandles |-> NoNative]
    /\ allocated = 0

(***************************************************************************)
(* The library session                                                     *)
(***************************************************************************)

\* A new() that hands out a session whatever fp_init returned.
FPrintNewIgnoresCode(res) == Ok("FPrint")

\* FPrint::new, given the code fp_init returned.
FPrintNew(res) ==
    IF res = 0 THEN Ok("FPrint") ELSE Err("InitError", res)

\* FPrint::new: a session value exists only when fp_init returned 0.
New ==
    /\ made < MaxSessions
    /\ \E res \in Codes :
         /\ initResult' = FPrintNew(res)
         /\ initCode' = res
         /\ IF FPrintNew(res)[1] = "Ok"
            THEN /\ sessions' = sessions + 1
                 /\ made' = made + 1
                 /\ inits' = inits + 1
            ELSE UNCHANGED <<sessions, made, inits>>
    /\ UNCHANGED exits
    /\ UNCHANGED <<discVars, enrollVars, last, ownVars>>

\* Clone::clone of FPrint (#[derive(Clone)]): a second session value, with no
\* call into the native library.
CloneSession ==
    /\ sessions > 0
    /\ made < MaxSessions
    /\ sessions' = sessions + 1
    /\ made' = made + 1
    /\ UNCHANGED <<inits, exits, initResult, initCode>>
    /\ UNCHANGED <<discVars, enrollVars, last, ownVars>>

\* Drop for FPrint: every session value that goes out of scope calls fp_exit.
DropSession ==
    /\ sessions > 0
    /\ sessions' = sessions - 1
    /\ exits' = exits + 1
    /\ UNCHANGED <<made, inits, initResult, initCode>>
    /\ UNCHANGED <<discVars, enrollVars, last, ownVars>>

SessInit ==
    /\ sessions = 0
    /\ made = 0
    /\ inits = 0
    /\ exits = 0
    /\ initResult = NotCalled
    /\ initCode = 0

Init == DiscInit /\ EnrollInit /\ CallInit /\ OwnInit /\ SessInit

Next ==
    \/ Verify \/ SysVerify \/ Load \/ Identify
    \/ FingerDecode \/ FingerRoundTrip
    \/ SysRoundTrip \/ RsRoundTrip \/ SysFromBytes \/ RsFromData
    \/ SaveToFile \/ Capture \/ OpenDevice \/ BinarizeImage \/ SysEnrollStage \/ Delete
    \/ Probe \/ EnrollStageCall

Spec == Init /\ [][Next]_vars

\* The error verify is to return for a retry code.
RetryNeeded(code) ==
    CASE code = 100 -> Err("RetryVerification", "Retry")
      [] code = 101 -> Err("RetryVerification", "RetryTooShort")
      [] code = 102 -> Err("RetryVerification", "RetryCenterFinger")
      [] code = 103 -> Err("RetryVerification", "RetryRemoveFinger")

\* C6: verify classifies every native return code: 0 is the success value
\* NoMatch, 1 the success value Match, each retry code 100..103 the error
\* RetryNeeded with that sub-reason, and a negative code VerifyFailed(code).
C6_VerifyClassifiesEveryCode ==
    last.op = "verify" =>
        LET code == last.in.code
        IN  /\ code = 0 => last.result = Ok("NoMatch")
            /\ code = 1 => last.result = Ok("Match")
            /\ code \in RetryCodes => last.result = RetryNeeded(code)
            /\ code < 0 => last.result = Err("VerifyFailed", code)

\* C7: load(finger) yields FingerprintNotFound(finger) for the native "not
\* found" code, ObscureFailure(code) for any other non-zero code, NullHandle
\* only for code 0 with a null handle, and the template for code 0 with a
\* handle.
C7_LoadClassifiesNotFound ==
    last.op = "load" =>
        LET code == last.in.code
            handle == last.in.handle
        IN  /\ code = -ENOENT => last.result = Err("FingerprintNotFound", last.in.finger)
            /\ (code # 0 /\ code # -ENOENT) => last.result = Err("Obscure", code)
            /\ last.result = Err("NullPtr", "LoadPrintData") => (code = 0 /\ handle = NULL)
            /\ (code = 0 /\ handle # NULL) => last.result = Ok(handle)

\* C8: when identify(gallery) returns Matched(index), index is the position
\* in the caller's gallery of the template that matches the scanned finger.
C8_MatchedIndexIsCallerPosition ==
    (last.op = "identify" /\ last.result[1] = "Ok" /\ last.result[2][1] = "Matched") =>
        LET index == last.result[2][2]
        IN  /\ index < Len(last.in.gallery)
            /\ NativeFromData(last.in.gallery[index + 1]) = last.in.scan

NextOwn == Acquire \/ Binarize \/ CloneObj \/ DropObj

SpecOwn == Init /\ [][NextOwn]_vars

\* The wrapper values alive that hold native handle h.
Owners(h) == {i \in LiveSlots : objs[i].handle = h}

\* C9: in every sequence of creations, duplications and destructions of
\* wrappers, no native handle is passed to its release function more than
\* once.
C9_ReleasedAtMostOnce ==
    \A h \in 1..MaxHandles : native[h].released <= 1

\* C10: once every owner of an Image is destroyed, its native image memory
\* has been released exactly once.
C10_ImageReleasedOnDrop ==
    \A h \in 1..MaxHandles :
        (native[h].kind \in ImageKinds /\ Owners(h) = {}) => native[h].released = 1

NextSession == New \/ CloneSession \/ DropSession

SpecSession == Init /\ [][NextSession]_vars

\* C11: in every sequence of session creations, duplications and
\* destructions within one process, the native global teardown fp_exit is
\* executed at most once.
C11_TeardownAtMostOnce ==
    exits <= 1

NextEnroll == Open \/ Enroll \/ Resume \/ EnrollStage

SpecEnroll == Init /\ [][NextEnroll]_vars

NextEnrollDriven == Open \/ Enroll \/ ResumeDriven

SpecEnrollDriven == Init /\ [][NextEnrollDriven]_vars

\* The generator has completed after receiving only Pass outcomes and then
\* one Complete outcome that assigned the template.
PassesThenComplete ==
    /\ gen = "done"
    /\ lastCall.via = "gen"
    /\ lastCall.code = Complete
    /\ data # NULL
    /\ passes = genCalls - 1

\* C1 (as stated): on a device with N enroll stages, N consecutive Pass
\* outcomes followed by one Complete outcome yield exactly N-1 "stage passed"
\* notifications and exactly one final template.
C1_NPassesYieldNMinusOne ==
    (PassesThenComplete /\ passes = nrStages) =>
        (yieldedPass = nrStages - 1 /\ templates = 1)

\* C1 (amended): N-1 consecutive Pass outcomes followed by one Complete
\* outcome that assigns the template yield exactly N-1 "stage passed"
\* notifications, nothing else, and exactly one final template; in general
\* every Pass outcome received is yielded as one notification.
C1_PassesYieldedOneEach ==
    /\ (PassesThenComplete /\ passes = nrStages - 1) =>
          /\ yieldedPass = nrStages - 1
          /\ yieldedOther = 0
          /\ templates = 1
          /\ genReturn = Ok(data)
    /\ PassesThenComplete => yieldedPass = passes

\* C1 witness: a three-stage device, two Pass outcomes, then Complete.
C1_Witness ==
    /\ PassesThenComplete
    /\ nrStages = 3
    /\ passes = 2
    /\ yieldedPass = 2
    /\ templates = 1

\* An outcome that aborts the enrollment: Fail, or a negative code.
Aborts(code) == code < 0 \/ code = Fail

NextDiscover == Discover \/ Count \/ Get \/ IterNext \/ DropSet \/ UseDev \/ DropDev

SpecDiscover == Init /\ [][NextDiscover]_vars

\* The entries of the native array, in array order.
DeviceList == [i \in 1..Entries |-> mem[i]]

\* C3: for a set whose array holds n entries before the first null, count()
\* returns n.
C3_CountIsEntries ==
    (set.live /\ set.inner # NULL /\ countResult # <<>>) => countResult[1] = Entries

\* C4: for a set with n entries, get(i) returns the i-th device for 0 <= i < n
\* and "not found" for every other i, and reads no slot outside the array.
C4_GetIsBoundsChecked ==
    (set.live /\ set.inner # NULL /\ getResult.result # <<"NotCalled">>) =>
        /\ getResult.read # "undefined"
        /\ getResult.result =
              IF getResult.index >= 0 /\ getResult.index < Entries
              THEN Some(mem[getResult.index + 1])
              ELSE None

\* C5: iterating a set with n entries yields each of the n devices once, in
\* array order, and ends at the null entry: after n+1 calls to next() the
\* produced sequence is the device list and the iteration has ended.
C5_IterationYieldsEachOnce ==
    (set.live /\ set.inner # NULL /\ nextCalls = Entries + 1) =>
        /\ ended
        /\ produced = DeviceList

\* C12: discovery with no attached hardware is not an error: discover()
\* returns a set with no entries, also when the native result is a null array
\* handle, and get(0) on that set returns "not found" without crashing and
\* without an undefined read.
C12_EmptyDiscoveryGetIsNotFound ==
    (set.live /\ Entries = 0 /\ getResult.result # NotCalled /\ getResult.index = 0) =>
        /\ getResult.result = None
        /\ getResult.read # "undefined"

\* C13: for each of the ten Finger values f, decoding the encoding of f gives
\* f; the encoding is a bijection onto 1..10; decoding a raw value outside
\* 1..10 fails with the invalid-value error carrying that raw value.
C13_FingerRoundTrip ==
    /\ last.op = "finger_round_trip" =>
          /\ last.result = Ok(FingerNames[last.in.finger])
          /\ last.in.code \in 1..10
    /\ \A i, j \in 1..Len(FingerNames) :
          FingerAsU32(FingerNames[i]) = FingerAsU32(FingerNames[j]) => i = j
    /\ {FingerAsU32(FingerNames[i]) : i \in 1..Len(FingerNames)} = 1..10
    /\ (last.op = "finger_decode" /\ last.in.code \notin 1..10) =>
          last.result = Err("TryFromError", last.in.code)
    /\ (last.op = "finger_decode" /\ last.in.code \in 1..10) =>
          /\ last.result[1] = "Ok"
          /\ FingerAsU32(last.result[2]) = last.in.code

\* C13 witness: RightIndex was encoded as 7 and decoded back.
C13_Witness ==
    /\ last.op = "finger_round_trip"
    /\ last.in.code = 7
    /\ last.result = Ok("RightIndex")

\* C14: for every buffer B that to_bytes() produces on a freshly enrolled
\* template, from_bytes(B) succeeds and yields a template whose to_bytes()
\* output equals B.
C14_BytesRoundTrip ==
    (last.op \in {"sys_round_trip", "rs_round_trip"} /\ last.result[2][1] = "Ok") =>
        /\ last.result[3][1] = "Ok"
        /\ last.result[3][2] # NULL
        /\ last.result[4] = last.result[2]

\* C14 witness: template 2 was serialized by fprint-sys, parsed back and
\* serialized again.
C14_Witness ==
    /\ last.op = "sys_round_trip"
    /\ last.in.handle = 2
    /\ last.result[2] = Ok(TemplateBytes(2))
    /\ last.result[3] = Ok(2)

\* C15: from_bytes(bytes) fails with the serialization error kind whenever
\* the native parse returns null: the result is that error, and so never a
\* template that wraps a null handle.
C15_MalformedBytesFailSerialization ==
    (last.op \in {"sys_from_bytes", "rs_from_data"}
       /\ NativeFromBytes(last.in.bytes, Len(last.in.bytes)) = NULL) =>
        /\ last.result[1] = "Err"
        /\ last.result[2] = "ConvertationFailed"

\* C16: save_to_file(path) fails with the path-not-found error exactly when
\* the directory component of path does not exist; for a not-yet-existing
\* file inside an existing directory it does not fail with that error, and
\* the outcome is that of the native save call.
C16_SaveFailsOnlyWithoutDirectory ==
    last.op = "save_to_file" =>
        /\ (last.result[2] = "PathNotExists") <=> ~last.in.dir
        /\ (last.in.dir /\ ~last.in.file) =>
              last.result = IF last.in.code = 0 THEN Ok("unit")
                            ELSE Err("SavePrint", last.in.code)

\* The latest call returned the null-handle error.
NullHandleError == last.result[1] = "Err" /\ last.result[2] = "NullPtr"

\* C17: no wrapper operation returns a success value that wraps a null
\* native handle: when the native call reports success but yields a null
\* handle (capture_image, load, open, enroll Complete, binarize), the
\* operation returns the null-handle error.
C17_NoSuccessWrapsNull ==
    /\ (last.op = "capture_image" /\ last.in.code = 0 /\ last.in.image = NULL) =>
          NullHandleError
    /\ (last.op = "load" /\ last.in.code = 0 /\ last.in.handle = NULL) =>
          NullHandleError
    /\ (last.op = "open" /\ last.in.handle = NULL) =>
          NullHandleError
    /\ (last.op = "sys_enroll" /\ last.in.code = Complete /\ last.in.handle = NULL) =>
          NullHandleError
    /\ (last.op = "binarize" /\ last.in.image = NULL) =>
          NullHandleError

\* C18: every wrapper operation that calls the native layer returns to the
\* caller, with one error kind or success value, for every raw return code:
\* no code makes it panic; delete(finger) returns Ok for 0 and
\* DeleteFailed(finger) for every non-zero code.
C18_EveryCodeIsClassified ==
    /\ last.op # "none" => last.result # Panic
    /\ last.op = "delete" =>
          /\ last.in.code = 0 => last.result = Ok("unit")
          /\ last.in.code # 0 => /\ last.result[1] = "Err"
                                  /\ last.result[2] = "RemoveFingerprint"
                                  /\ last.result[3] = last.in.finger

\* The result r is the error of the given kind with the given payload.
IsErr(r, kind, payload) == r[1] = "Err" /\ r[2] = kind /\ r[3] = payload

\* C19: capture_image and identify fail with NotSupported (context
\* CapturingImage resp. Identify) exactly when the native call returns the
\* not-supported sentinel; any other negative code yields an error carrying
\* the raw code (Other for capture, IdentifyFailed for identify).
C19_NotSupportedOnlyForSentinel ==
    /\ last.op = "capture_image" =>
          /\ IsErr(last.result, "NotSupported", "CapturingImage")
                <=> last.in.code = -ENOTSUP
          /\ (last.in.code < 0 /\ last.in.code # -ENOTSUP) =>
                IsErr(last.result, "Other", last.in.code)
    /\ last.op = "identify" =>
          /\ IsErr(last.result, "NotSupported", "Identify")
                <=> last.in.code = -ENOTSUP
          /\ (last.in.code < 0 /\ last.in.code # -ENOTSUP) =>
                IsErr(last.result, "IdentifyFailed", last.in.code)

\* C19 witness: the native capture returned the sentinel and capture_image
\* failed with NotSupported(CapturingImage).
C19_Witness ==
    /\ last.op = "capture_image"
    /\ last.in.code = -ENOTSUP
    /\ last.result = Err("NotSupported", "CapturingImage")

\* C20: supports_imaging() is true exactly when the device has imaging
\* capabilities and supports_identification() exactly when it can identify;
\* so on a device for which supports_imaging() is false capture_image fails
\* with NotSupported, and on one for which supports_identification() is
\* false identify fails with NotSupported.
C20_CapabilityQueriesAreTruthful ==
    last.op = "probe" =>
        /\ last.result[2] <=> last.in.imaging
        /\ last.result[3] <=> last.in.identification
        /\ ~last.result[2] => IsErr(last.result[4], "NotSupported", "CapturingImage")
        /\ ~last.result[3] => IsErr(last.result[5], "NotSupported", "Identify")

\* C21: initialize() returns a session exactly when the native init returns
\* 0, and otherwise fails with InitFailed(code) carrying the non-zero code.
C21_InitFailsExactlyOnNonZero ==
    initResult # NotCalled =>
        /\ initResult[1] = "Ok" <=> initCode = 0
        /\ initCode # 0 => /\ initResult[1] = "Err"
                            /\ initResult[2] = "InitError"
                            /\ initResult[3] = initCode

\* C21 witness: fp_init returned -1 and new() failed with InitError(-1),
\* after an earlier new() had made a session.
C21_Witness ==
    /\ initCode = -1
    /\ initResult = Err("InitError", -1)
    /\ inits = 1

\* The outcome the enroll codes stand for.
EnrollOutcomeName(code) ==
    CASE code = 1 -> "Complete"
      [] code = 2 -> "Fail"
      [] code = 3 -> "Pass"
      [] code = 100 -> "Retry"
      [] code = 101 -> "RetryTooShort"
      [] code = 102 -> "RetryCenterFinger"
      [] code = 103 -> "RetryRemoveFinger"

\* C22: enroll_stage classifies every native return code into exactly one
\* outcome: a negative code is UnexpectedAbort(code); 1, 2, 3, 100, 101, 102,
\* 103 are Complete, Fail, Pass, Retry, RetryTooShort, RetryCenterFinger,
\* RetryRemoveFinger; any other non-negative code is InvalidEnumValue(raw).
C22_EnrollClassifiesEveryCode ==
    /\ last.op \in {"enroll_stage", "sys_enroll"} =>
          LET code == last.in.code
          IN  /\ code < 0 => IsErr(last.result, "UnexpectedAbort", code)
              /\ (code >= 0 /\ code \notin {1, 2, 3, 100, 101, 102, 103}) =>
                    IsErr(last.result, "TryFromError", code)
    /\ (last.op = "enroll_stage" /\ last.in.code \in {1, 2, 3, 100, 101, 102, 103}) =>
          last.result = Ok(EnrollOutcomeName(last.in.code))
    /\ (last.op = "sys_enroll" /\ last.in.code \in {1, 2, 3, 100, 101, 102, 103}) =>
          /\ last.result[1] = "Ok"
          /\ last.result[2][1] = EnrollOutcomeName(last.in.code)

\* C22 witness: the native call returned 101 and enroll_finger_image
\* returned RetryTooShort.
C22_Witness ==
    /\ last.op = "enroll_stage"
    /\ last.in.code = 101
    /\ last.result = Ok("RetryTooShort")

C25_OneNativeCallPerResume ==
    /\ genCalls = resumes
    /\ gen \in {"none", "suspended", "done"}
    /\ yieldedPass + yieldedOther + (IF gen = "done" THEN 1 ELSE 0) = resumes

\* C25 witness: three resumes, two of them suspended on a retry and the
\* third completed, with three native calls.
C25_Witness ==
    /\ resumes = 3
    /\ genCalls = 3
    /\ yieldedOther = 2
    /\ gen = "done"
    /\ lastYield[1] \in {"Retry", "RetryTooShort", "RetryCenterFinger", "RetryRemoveFinger"}

\* The names of the retry outcomes.
RetryNames == {"Retry", "RetryTooShort", "RetryCenterFinger", "RetryRemoveFinger"}

\* C26: a negative abort code and a Fail outcome both surface from the
\* enroll loop as errors (the loop completes with a terminal error and makes
\* no further native call), whereas retry outcomes are returned as
\* successful intermediate variants.
C26_FatalOutcomesEndTheLoop ==
    /\ (genCalls > 0 /\ (lastCall.code < 0 \/ lastCall.code = Fail)) =>
          /\ gen = "done"
          /\ genReturn[1] = "Err"
    /\ ~(genCalls > 1 /\ (prevCall.code < 0 \/ prevCall.code = Fail))
    /\ (genCalls > 0 /\ lastCall.code \in RetryCodes) =>
          /\ gen = "suspended"
          /\ lastYield[1] \in RetryNames

\* C27: the enroll loop never completes successfully with an absent
\* template: when it completes with Ok(template) the handle is non-null, and
\* a Complete outcome that left the handle null completes the loop with an
\* error.
C27_NoOkWithNullTemplate ==
    /\ (gen = "done" /\ genReturn[1] = "Ok") => genReturn[2] # NULL
    /\ (genCalls > 0 /\ lastCall.code = Complete /\ lastCall.print = NULL) =>
          /\ gen = "done"
          /\ genReturn[1] = "Err"

\* C27 witness: the native answered Complete without assigning the print
\* and the loop completed with the Obscure error.
C27_Witness ==
    /\ genCalls > 0
    /\ lastCall.code = Complete
    /\ lastCall.print = NULL
    /\ gen = "done"
    /\ IsErr(genReturn, "Obscure", 0)

\* C28: the enroll loop never yields Complete: every yielded value is Fail,
\* Pass or a Retry* outcome, and a Complete native outcome ends the loop on
\* that same resume.
C28_CompleteIsNeverYielded ==
    /\ lastYield # NotCalled => lastYield[1] \in {"Fail", "Pass"} \cup RetryNames
    /\ (genCalls > 0 /\ lastCall.code = Complete) => gen = "done"

\* C28 witness: the loop yielded Pass and the next resume, answered with
\* Complete, ended it with the template.
C28_Witness ==
    /\ genCalls = 2
    /\ prevCall.code = Pass
    /\ lastYield[1] = "Pass"
    /\ lastCall.code = Complete
    /\ gen = "done"
    /\ genReturn[1] = "Ok"

\* The prints fp_print_data_from_data makes of the well-formed buffers of a
\* gallery, in the gallery's order.
Reconstructed(gallery) ==
    LET valid == SelectSeq(gallery, LAMBDA buf : buf.valid)
    IN  [i \in 1..Len(valid) |-> valid[i].tmpl]

\* C29: identify(gallery) passes the native layer a null-terminated array of
\* the templates it reconstructed from the gallery bytes, and every native
\* template handle it acquired for that array is released exactly once by
\* the time identify returns, on success and on every error path.
C29_IdentifyReleasesItsPrints ==
    last.op = "identify" =>
        /\ last.in.array = Append(Reconstructed(last.in.gallery), NULL)
        /\ Len(last.in.released) = Len(last.in.array) - 1
        /\ \A i \in 1..Len(last.in.released) : last.in.released[i] = 1

\* C30: a Discovered-Device is valid only while its parent set is alive: no
\* Discovered-Device obtained from get(i) or iteration is used (accessor
\* call or open()) after its parent set was destroyed and the native array
\* released, and a Discovered-Device is never released on its own.
C30_DevUsedOnlyWhileSetAlive ==
    /\ lastUse.op # "none" => lastUse.alive
    /\ devFreed = {}

====
